---- MODULE Spec2Model ----
(***************************************************************************)
(* Model of dendrite's /sync long-poll handler                             *)
(* (RequestPool.OnIncomingSyncRequest) and of the federation join          *)
(* handlers MakeJoin and SendJoin, from syncapi/sync/requestpool.go.       *)
(*                                                                         *)
(* The notifier, the sync and account databases, the roomserver producer   *)
(* and query API and the authorization rule evaluator are not part of the  *)
(* source file; they are modelled from the specification (sections 4.1,    *)
(* 4.3, 4.4 and 4.5).                                                      *)
(***************************************************************************)
EXTENDS Integers, Sequences, FiniteSets, TLC

\* ------------------------------------------------------------------ bounds
\* Highest stream position the model publishes.
MaxPos == 3
\* Highest since token a client presents.
MaxSince == 2

\* The /sync request and the send_join request under observation. Requests
\* share nothing but the notifier and the stream, so every other task is
\* seen through what it publishes (Advance).
Requests == {"r1"}
Joins == {"j1"}
MakeJoins == {"m1"}

\* What a published stream item is, seen from the syncing user:
\*   "event"  a room event of a room the user is joined to
\*   "acct"   a change of a type of the user's global account data
\*   "racct"  a change of a type of the user's account data of room R
\*   "join"   a member event committed by SendJoin in a room of the user
\*   "other"  data that does not concern the user
Kinds == {"event", "acct", "racct", "join", "other"}
RoomData(k) == k \in {"event", "join"}
AcctKinds == {"acct", "racct"}
Relevant(k) == RoomData(k) \/ k \in AcctKinds

VARIABLES
  \* --- notifier and storage (shared)
  stream,      \* the committed data, one item per stream position
  position,    \* Notifier.currPos
  \* --- one /sync request per r \in Requests
  pc,          \* where the handler is
  since,       \* syncReq.since
  timeout,     \* syncReq.timeout (0, or 1 for any positive duration)
  currPos,     \* the local currPos
  arrPos,      \* history: position read by CurrentPosition at line 65
  after200,    \* history: a send_join had returned 200 when this one arrived
  registered,  \* the request holds a listener
  ch,          \* the channel the select waits on: "none", "open", "closed"
  timer,       \* "none", "running", "fired"
  cancelled,   \* req.Context().Done() is closed
  cancelAt,    \* history: pc at the moment the context was cancelled
  snaps,       \* history: <<since, currentPos, ok>> of each currentSyncForUser
  releases,    \* history: number of userStreamListener.Close() calls
  resp,        \* the response returned
  \* --- one send_join request per j \in Joins
  jpc,         \* where SendJoin is
  jreq,        \* the request: path, peer origin and body
  jchecks,     \* history: the steps SendJoin performed, in order
  jstate,      \* stateAndAuthChainRepsonse: stream position it was read at
  jcommit,     \* history: stream position the event was committed at (0: not)
  jresp,       \* the response returned
  \* --- one make_join request per m \in MakeJoins
  mpc,         \* where MakeJoin is
  mreq,        \* the request, and the room as the roomserver will report it
  msteps,      \* history: the steps MakeJoin performed, in order
  mresp        \* the response returned

sharedVars == <<stream, position>>
syncVars == <<pc, since, timeout, currPos, arrPos, after200, registered, ch,
              timer, cancelled, cancelAt, snaps, releases, resp>>
joinVars == <<jpc, jreq, jchecks, jstate, jcommit, jresp>>
makeVars == <<mpc, mreq, msteps, mresp>>
vars == <<stream, position, pc, since, timeout, currPos, arrPos, after200,
          registered, ch, timer, cancelled, cancelAt, snaps, releases, resp,
          jpc, jreq, jchecks, jstate, jcommit, jresp,
          mpc, mreq, msteps, mresp>>

\* ------------------------------------------------------- sync responses
\* A response: the positions of the room events it carries (data) and the
\* account data attached to it (acct).
NoResp == [code |-> 0, via |-> "none", kind |-> "none", next |-> 0,
           data |-> {}, acct |-> {}]

\* httputil.LogThenError: a 500 with no sync body.
LogThenError(why) ==
  [code |-> 500, via |-> why, kind |-> "none", next |-> 0, data |-> {},
   acct |-> {}]

\* types.NewResponse(pos): the empty response carrying pos as next_batch.
NewResponse(p) == [kind |-> "empty", next |-> p, data |-> {}, acct |-> {}]

\* SyncServerDatabase.IncrementalSync: the room events of the user at the
\* positions in (from, to].
IncrementalSync(from, to) ==
  [kind |-> "incremental", next |-> to,
   data |-> {p \in (from + 1)..to : p <= Len(stream) /\ RoomData(stream[p])},
   acct |-> {}]

\* SyncServerDatabase.CompleteSync: every room event the user can see at the
\* moment of the query.
CompleteSync ==
  [kind |-> "complete", next |-> Len(stream),
   data |-> {p \in 1..Len(stream) : RoomData(stream[p])},
   acct |-> {}]

\* The room an account data type belongs to; "" for global account data.
RoomOf(k) == IF k = "racct" THEN "R" ELSE ""

\* SyncServerDatabase.GetAccountDataInRange: the types changed in (from, to].
GetAccountDataInRange(from, to) ==
  {stream[p] : p \in {q \in (from + 1)..to :
                        q <= Len(stream) /\ stream[q] \in AcctKinds}}

\* accounts.Database.GetAccountDataByType: the current value of the type,
\* named by the position that set it.
GetAccountDataByType(k) ==
  LET ps == {p \in 1..Len(stream) : stream[p] = k} IN
  {<<k, CHOOSE p \in ps : \A q \in ps : q <= p>>}

\* accounts.Database.GetAccountData: the current value of every type set.
GetAccountData ==
  UNION {GetAccountDataByType(k) : k \in {stream[p] : p \in 1..Len(stream)}
                                           \cap AcctKinds}

\* Mutant of AttachAccountData: global account data is not attached.
AttachRoomAccountDataOnly(roomID, events) ==
  IF Len(roomID) > 0 THEN {<<"join", roomID, e>> : e \in events} ELSE {}

\* Lines 287-294: the events of a room go to the joined room's account data,
\* those of no room to the global account data.
AttachAccountData(roomID, events) ==
  IF Len(roomID) > 0
  THEN {<<"join", roomID, e>> : e \in events}
  ELSE {<<"global", roomID, e>> : e \in events}

\* The keys of data.Rooms.Join: the rooms the response carries events of.
JoinedRooms(res) == IF res.data = {} THEN {} ELSE {"R"}

\* RequestPool.appendAccountData
appendAccountData(res, s, currentPos) ==
  IF s = 0
  THEN [res EXCEPT !.acct =
          {<<"global", "", e>> : e \in {g \in GetAccountData : RoomOf(g[1]) = ""}}
          \cup {<<"join", RoomOf(e[1]), e>> :
                  e \in {g \in GetAccountData :
                           RoomOf(g[1]) \in JoinedRooms(res)}}]
  ELSE LET dataTypes == GetAccountDataInRange(s, currentPos) IN
       [res EXCEPT !.acct =
          UNION {AttachAccountData(RoomOf(k), GetAccountDataByType(k)) :
                   k \in dataTypes}]

\* Response.IsEmpty
IsEmpty(res) == res.data = {} /\ res.acct = {}

\* RequestPool.currentSyncForUser, when storage answers.
currentSyncForUser(s, currentPos) ==
  appendAccountData(IF s = 0 THEN CompleteSync
                    ELSE IncrementalSync(s, currentPos), s, currentPos)

JSONResponse200(via, body) ==
  [code |-> 200, via |-> via, kind |-> body.kind, next |-> body.next,
   data |-> body.data, acct |-> body.acct]

\* ------------------------------------------------------------- notifier
\* Notifier.CurrentPosition
CurrentPosition == position

\* UserStreamListener.GetNotifyChannel(sinceKnown): checked and registered
\* in one step: an already closed channel if the position is past
\* sinceKnown, else the listener's open wake channel.
GetNotifyChannel(sinceKnown) ==
  IF position > sinceKnown THEN "closed" ELSE "open"

\* UserStreamListener.GetStreamPosition: every advance wakes every listener,
\* so the position of the last wake is the current one.
GetStreamPosition == position

\* ------------------------------------------------- send_join requests
\* The path of the request and the peer that sent it.
PathRoom == "R"
PathEvent == "E"
PeerOrigin == "hs2"
Rooms == {"R", "R2"}
EventIDs == {"E", "E2"}
Servers == {"hs2", "hs3"}

\* A body that json.Unmarshal rejects.
NoBody == [parsed |-> FALSE, roomID |-> "", eventID |-> "", origin |-> "",
           signedBy |-> "", ts |-> "", authOK |-> FALSE]

\* The bodies a peer can send: any event, signed by any server, with an
\* origin_server_ts inside or outside the signing key's validity, allowed or
\* not by the room's authorization rules.
Bodies ==
  {NoBody} \cup
  [parsed : {TRUE}, roomID : Rooms, eventID : EventIDs, origin : Servers,
   signedBy : Servers, ts : {"valid", "expired"}, authOK : BOOLEAN]

NoJoinResp == [code |-> 0, errcode |-> "none", msg |-> "none", state |-> 0]
JoinError(code, errcode, msg) ==
  [code |-> code, errcode |-> errcode, msg |-> msg, state |-> 0]

\* ------------------------------------------------- make_join requests
\* User IDs as the pieces SplitID looks at: sigil, localpart, colon, domain.
UserIDs ==
  { <<"@", "bob", ":", "hs2">>, <<"@", "bob", ":", "hs3">>,
    <<"@", "bob">>, <<"bob", ":", "hs2">> }

\* What the room's authorization rules say of a join of the user: allowed,
\* or the reason of the rejection.
Verdicts == {"allowed", "user is banned", "room is invite only"}

NoMakeReq == [userID |-> <<>>, origin |-> "", roomExists |-> FALSE,
              verdict |-> ""]
NoMakeResp == [code |-> 0, errcode |-> "none", msg |-> "none", event |-> <<>>]
MakeError(code, errcode, msg) ==
  [code |-> code, errcode |-> errcode, msg |-> msg, event |-> <<>>]

\* gomatrixserverlib.SplitID: the sigil, then the localpart up to the first
\* colon, then the domain.
SplitID(sigil, id) ==
  LET colons == {i \in DOMAIN id : id[i] = ":"} IN
  IF Len(id) = 0 \/ id[1] # sigil \/ colons = {}
  THEN [err |-> TRUE, local |-> "", domain |-> ""]
  ELSE LET c == CHOOSE i \in colons : \A k \in colons : i <= k IN
       [err |-> FALSE,
        local |-> IF c > 2 THEN id[2] ELSE "",
        domain |-> IF c < Len(id) THEN id[c + 1] ELSE ""]

Init ==
  /\ stream = <<>>
  /\ position = 0
  /\ pc = [r \in Requests |-> "idle"]
  /\ since = [r \in Requests |-> 0]
  /\ timeout = [r \in Requests |-> 0]
  /\ currPos = [r \in Requests |-> 0]
  /\ arrPos = [r \in Requests |-> 0]
  /\ after200 = [r \in Requests |-> FALSE]
  /\ registered = [r \in Requests |-> FALSE]
  /\ ch = [r \in Requests |-> "none"]
  /\ timer = [r \in Requests |-> "none"]
  /\ cancelled = [r \in Requests |-> FALSE]
  /\ cancelAt = [r \in Requests |-> "none"]
  /\ snaps = [r \in Requests |-> <<>>]
  /\ releases = [r \in Requests |-> 0]
  /\ resp = [r \in Requests |-> NoResp]
  /\ jpc = [j \in Joins |-> "idle"]
  /\ jreq = [j \in Joins |-> NoBody]
  /\ jchecks = [j \in Joins |-> <<>>]
  /\ jstate = [j \in Joins |-> 0]
  /\ jcommit = [j \in Joins |-> 0]
  /\ jresp = [j \in Joins |-> NoJoinResp]
  /\ mpc = [m \in MakeJoins |-> "idle"]
  /\ mreq = [m \in MakeJoins |-> NoMakeReq]
  /\ msteps = [m \in MakeJoins |-> <<>>]
  /\ mresp = [m \in MakeJoins |-> NoMakeResp]

\* Publication of one item: the item is stored and the position counter
\* advances in the same step; every listener waiting on its open channel is
\* woken, and a request parked in the select takes the listener case.
Publish(k) ==
  /\ stream' = Append(stream, k)
  /\ position' = position + 1
  /\ ch' = [r \in Requests |-> IF ch[r] = "open" THEN "closed" ELSE ch[r]]
  /\ pc' = [r \in Requests |->
              IF pc[r] = "parked" /\ ch[r] = "open" THEN "caseListener"
              ELSE pc[r]]

\* Notifier.OnNewEvent for data written by any other component.
Advance ==
  /\ position < MaxPos
  /\ \E k \in {"event", "acct", "racct", "other"} : Publish(k)
  /\ UNCHANGED <<since, timeout, currPos, arrPos, after200, registered, timer,
                 cancelled, cancelAt, snaps, releases, resp>>
  /\ UNCHANGED <<joinVars, makeVars>>

\* Mutant of Return: the listener is not closed on the way out.
ReturnWithoutClose(r, response) ==
  /\ resp' = [resp EXCEPT ![r] = response]
  /\ pc' = [pc EXCEPT ![r] = "done"]
  /\ UNCHANGED <<registered, releases>>
  /\ ch' = [ch EXCEPT ![r] = "none"]

\* ------------------------------------------- OnIncomingSyncRequest
\* The deferred calls of a return from the listening part: the timer is
\* stopped and the listener is closed.
Return(r, response) ==
  /\ resp' = [resp EXCEPT ![r] = response]
  /\ pc' = [pc EXCEPT ![r] = "done"]
  /\ registered' = [registered EXCEPT ![r] = FALSE]
  /\ releases' = [releases EXCEPT ![r] = @ + 1]
  /\ ch' = [ch EXCEPT ![r] = "none"]

\* The request arrives: newSyncRequest parses it, and the handler reads the
\* notifier's position.
Arrive(r) ==
  /\ pc[r] = "idle"
  /\ \E valid \in BOOLEAN, s \in 0..MaxSince, t \in {0, 1} :
       IF valid
       THEN /\ since' = [since EXCEPT ![r] = s]
            /\ timeout' = [timeout EXCEPT ![r] = t]
            /\ currPos' = [currPos EXCEPT ![r] = CurrentPosition]
            /\ arrPos' = [arrPos EXCEPT ![r] = CurrentPosition]
            /\ after200' = [after200 EXCEPT ![r] =
                              \E j \in Joins : jresp[j].code = 200]
            /\ pc' = [pc EXCEPT ![r] = "check"]
            /\ resp' = resp
       ELSE /\ resp' = [resp EXCEPT ![r] =
                          [code |-> 400, via |-> "badrequest", kind |-> "none",
                           next |-> 0, data |-> {}, acct |-> {}]]
            /\ pc' = [pc EXCEPT ![r] = "done"]
            /\ UNCHANGED <<since, timeout, currPos, arrPos, after200>>
  /\ UNCHANGED <<registered, ch, timer, cancelled, cancelAt, snaps, releases>>
  /\ UNCHANGED <<sharedVars, joinVars, makeVars>>

\* Mutant of ReturnsImmediately: the two conditions joined by "and".
ReturnsImmediatelyBoth(r) == since[r] = 0 /\ timeout[r] = 0

\* The test of line 68: an initial sync or timeout=0 returns immediately.
ReturnsImmediately(r) == since[r] = 0 \/ timeout[r] = 0

\* The immediate return: one snapshot at the position read at arrival.
FastPath(r) ==
  /\ pc[r] = "check"
  /\ ReturnsImmediately(r)
  /\ \E ok \in BOOLEAN :
       /\ snaps' = [snaps EXCEPT ![r] = Append(@, <<since[r], currPos[r], ok>>)]
       /\ resp' = [resp EXCEPT ![r] =
                     IF ok
                     THEN JSONResponse200("fast",
                                          currentSyncForUser(since[r], currPos[r]))
                     ELSE LogThenError("error")]
  /\ pc' = [pc EXCEPT ![r] = "done"]
  /\ UNCHANGED <<since, timeout, currPos, arrPos, after200, registered, ch, timer,
                 cancelled, cancelAt, releases>>
  /\ UNCHANGED <<sharedVars, joinVars, makeVars>>

\* Otherwise the timer is started and the listener obtained.
StartListening(r) ==
  /\ pc[r] = "check"
  /\ ~ReturnsImmediately(r)
  /\ timer' = [timer EXCEPT ![r] = "running"]
  /\ registered' = [registered EXCEPT ![r] = TRUE]
  /\ pc' = [pc EXCEPT ![r] = "select"]
  /\ UNCHANGED <<since, timeout, currPos, arrPos, after200, ch, cancelled, cancelAt,
                 snaps, releases, resp>>
  /\ UNCHANGED <<sharedVars, joinVars, makeVars>>

\* Mutant of WaitPosition: the position waited on is one too high.
WaitPositionOffByOne(r) == currPos[r] + 1

\* The position handed to GetNotifyChannel at line 91.
WaitPosition(r) == currPos[r]

\* Entering the select: its channel operands are evaluated, the listener's
\* with the notifier's lock held.
SelectEnter(r) ==
  /\ pc[r] = "select"
  /\ ch' = [ch EXCEPT ![r] = GetNotifyChannel(WaitPosition(r))]
  /\ pc' = [pc EXCEPT ![r] = "poll"]
  /\ UNCHANGED <<since, timeout, currPos, arrPos, after200, registered, timer,
                 cancelled, cancelAt, snaps, releases, resp>>
  /\ UNCHANGED <<sharedVars, joinVars, makeVars>>

\* The select polls its cases: any ready one may be taken; with none ready
\* the goroutine parks, and the first channel to fire takes its case.
Poll(r) ==
  /\ pc[r] = "poll"
  /\ \/ /\ ch[r] = "closed"
        /\ pc' = [pc EXCEPT ![r] = "caseListener"]
     \/ /\ timer[r] = "fired"
        /\ pc' = [pc EXCEPT ![r] = "caseTimer"]
     \/ /\ cancelled[r]
        /\ pc' = [pc EXCEPT ![r] = "caseCancel"]
     \/ /\ ch[r] # "closed" /\ timer[r] # "fired" /\ ~cancelled[r]
        /\ pc' = [pc EXCEPT ![r] = "parked"]
  /\ UNCHANGED <<since, timeout, currPos, arrPos, after200, registered, ch, timer,
                 cancelled, cancelAt, snaps, releases, resp>>
  /\ UNCHANGED <<sharedVars, joinVars, makeVars>>

\* The timer of line 82 expires.
TimerFire(r) ==
  /\ timer[r] = "running"
  /\ pc[r] # "done"
  /\ timer' = [timer EXCEPT ![r] = "fired"]
  /\ pc' = [pc EXCEPT ![r] = IF @ = "parked" THEN "caseTimer" ELSE @]
  /\ UNCHANGED <<since, timeout, currPos, arrPos, after200, registered, ch, cancelled,
                 cancelAt, snaps, releases, resp>>
  /\ UNCHANGED <<sharedVars, joinVars, makeVars>>

\* The caller goes away: the request's context is cancelled.
Cancel(r) ==
  /\ pc[r] \notin {"idle", "done"}
  /\ ~cancelled[r]
  /\ cancelled' = [cancelled EXCEPT ![r] = TRUE]
  /\ cancelAt' = [cancelAt EXCEPT ![r] = pc[r]]
  /\ pc' = [pc EXCEPT ![r] = IF @ = "parked" THEN "caseCancel" ELSE @]
  /\ UNCHANGED <<since, timeout, currPos, arrPos, after200, registered, ch, timer,
                 snaps, releases, resp>>
  /\ UNCHANGED <<sharedVars, joinVars, makeVars>>

\* Mutant of CaseListener: the known position is not advanced to the one
\* the listener reports.
CaseListenerStalePosition(r) ==
  /\ pc[r] = "caseListener"
  /\ pc' = [pc EXCEPT ![r] = "compute"]
  /\ UNCHANGED <<since, timeout, currPos, arrPos, after200, registered, ch, timer,
                 cancelled, cancelAt, snaps, releases, resp>>
  /\ UNCHANGED <<sharedVars, joinVars, makeVars>>

\* case <-userStreamListener.GetNotifyChannel(currPos)
CaseListener(r) ==
  /\ pc[r] = "caseListener"
  /\ currPos' = [currPos EXCEPT ![r] = GetStreamPosition]
  /\ pc' = [pc EXCEPT ![r] = "compute"]
  /\ UNCHANGED <<since, timeout, arrPos, after200, registered, ch, timer, cancelled,
                 cancelAt, snaps, releases, resp>>
  /\ UNCHANGED <<sharedVars, joinVars, makeVars>>

\* Mutant of TimeoutToken: the locally advanced position is returned.
TimeoutTokenCurrPos(r) == currPos[r]

\* The token of the response of the timer case (line 97).
TimeoutToken(r) == since[r]

\* case <-timer.C
CaseTimer(r) ==
  /\ pc[r] = "caseTimer"
  /\ Return(r, JSONResponse200("timer", NewResponse(TimeoutToken(r))))
  /\ UNCHANGED <<since, timeout, currPos, arrPos, after200, timer, cancelled, cancelAt,
                 snaps>>
  /\ UNCHANGED <<sharedVars, joinVars, makeVars>>

\* case <-req.Context().Done()
CaseCancel(r) ==
  /\ pc[r] = "caseCancel"
  /\ Return(r, LogThenError("cancel"))
  /\ UNCHANGED <<since, timeout, currPos, arrPos, after200, timer, cancelled, cancelAt,
                 snaps>>
  /\ UNCHANGED <<sharedVars, joinVars, makeVars>>

\* Mutant of ReturnsSnapshot: the emptiness test is missing.
ReturnsAnySnapshot(res) == TRUE

\* The test of line 113: a snapshot is returned unless it is empty.
ReturnsSnapshot(res) == ~IsEmpty(res)

\* Mutant of Compute: a cancellation or a timer expiry that happened in the
\* meantime replaces the result of the computation.
ComputeRaced(r) ==
  /\ pc[r] = "compute"
  /\ \E ok \in BOOLEAN :
       LET res == currentSyncForUser(since[r], currPos[r]) IN
       /\ snaps' = [snaps EXCEPT ![r] = Append(@, <<since[r], currPos[r], ok>>)]
       /\ IF cancelled[r]
          THEN Return(r, LogThenError("cancel"))
          ELSE IF timer[r] = "fired"
          THEN Return(r, JSONResponse200("timer", NewResponse(since[r])))
          ELSE IF ~ok
          THEN Return(r, LogThenError("error"))
          ELSE IF ReturnsSnapshot(res)
          THEN Return(r, JSONResponse200("wake", res))
          ELSE /\ pc' = [pc EXCEPT ![r] = "select"]
               /\ UNCHANGED <<resp, registered, releases, ch>>
  /\ UNCHANGED <<since, timeout, currPos, arrPos, after200, timer, cancelled, cancelAt>>
  /\ UNCHANGED <<sharedVars, joinVars, makeVars>>

\* Mutant of Compute: an empty snapshot restarts the timer before looping.
ComputeResetsTimer(r) ==
  /\ pc[r] = "compute"
  /\ \E ok \in BOOLEAN :
       LET res == currentSyncForUser(since[r], currPos[r]) IN
       /\ snaps' = [snaps EXCEPT ![r] = Append(@, <<since[r], currPos[r], ok>>)]
       /\ IF ~ok
          THEN Return(r, LogThenError("error")) /\ timer' = timer
          ELSE IF ReturnsSnapshot(res)
          THEN Return(r, JSONResponse200("wake", res)) /\ timer' = timer
          ELSE /\ pc' = [pc EXCEPT ![r] = "select"]
               /\ timer' = [timer EXCEPT ![r] = "running"]
               /\ UNCHANGED <<resp, registered, releases, ch>>
  /\ UNCHANGED <<since, timeout, currPos, arrPos, after200, cancelled, cancelAt>>
  /\ UNCHANGED <<sharedVars, joinVars, makeVars>>

\* Mutant of Compute: a failed snapshot is retried at the next wake.
ComputeRetriesOnError(r) ==
  /\ pc[r] = "compute"
  /\ \E ok \in BOOLEAN :
       LET res == currentSyncForUser(since[r], currPos[r]) IN
       /\ snaps' = [snaps EXCEPT ![r] = Append(@, <<since[r], currPos[r], ok>>)]
       /\ IF ok /\ ReturnsSnapshot(res)
          THEN Return(r, JSONResponse200("wake", res))
          ELSE /\ pc' = [pc EXCEPT ![r] = "select"]
               /\ UNCHANGED <<resp, registered, releases, ch>>
  /\ UNCHANGED <<since, timeout, currPos, arrPos, after200, timer, cancelled, cancelAt>>
  /\ UNCHANGED <<sharedVars, joinVars, makeVars>>

\* The snapshot after a wake, and what is done with it (lines 109-118).
Compute(r) ==
  /\ pc[r] = "compute"
  /\ \E ok \in BOOLEAN :
       LET res == currentSyncForUser(since[r], currPos[r]) IN
       /\ snaps' = [snaps EXCEPT ![r] = Append(@, <<since[r], currPos[r], ok>>)]
       /\ IF ~ok
          THEN Return(r, LogThenError("error"))
          ELSE IF ReturnsSnapshot(res)
          THEN Return(r, JSONResponse200("wake", res))
          ELSE /\ pc' = [pc EXCEPT ![r] = "select"]
               /\ UNCHANGED <<resp, registered, releases, ch>>
  /\ UNCHANGED <<since, timeout, currPos, arrPos, after200, timer, cancelled, cancelAt>>
  /\ UNCHANGED <<sharedVars, joinVars, makeVars>>

SyncStep(r) ==
  \/ Arrive(r)
  \/ FastPath(r)
  \/ StartListening(r)
  \/ SelectEnter(r)
  \/ Poll(r)
  \/ TimerFire(r)
  \/ Cancel(r)
  \/ CaseListener(r)
  \/ CaseTimer(r)
  \/ CaseCancel(r)
  \/ Compute(r)

SyncNext == \E r \in Requests : SyncStep(r)

\* The sync handlers alone, with data published by other components.
SpecSync == Init /\ [][Advance \/ SyncNext]_vars

\* ------------------------------------------------------------ SendJoin
ParseFailure == JoinError(400, "M_NOT_JSON", "not json")
RoomMismatch == JoinError(400, "M_BAD_JSON", "room id mismatch")
EventMismatch == JoinError(400, "M_BAD_JSON", "event id mismatch")
OriginMismatch == JoinError(403, "M_FORBIDDEN", "not sent by origin")
BadSignature == JoinError(403, "M_FORBIDDEN", "not signed by origin")
JoinInternalError == JoinError(500, "M_UNKNOWN", "internal server error")

Finish(j, response) ==
  /\ jresp' = [jresp EXCEPT ![j] = response]
  /\ jpc' = [jpc EXCEPT ![j] = "done"]

\* A peer sends one of the bodies of B to /send_join/R/E.
SJArriveWith(j, B) ==
  /\ jpc[j] = "idle"
  /\ \E b \in B : jreq' = [jreq EXCEPT ![j] = b]
  /\ jpc' = [jpc EXCEPT ![j] = "validate"]
  /\ UNCHANGED <<jchecks, jstate, jcommit, jresp>>
  /\ UNCHANGED <<sharedVars, syncVars, makeVars>>

SJArrive(j) == SJArriveWith(j, Bodies)

\* Mutant of Validate: the origin is compared before the identifiers.
ValidateOriginFirst(b) ==
  IF ~b.parsed
  THEN [checks |-> <<"parse">>, fail |-> ParseFailure]
  ELSE IF b.origin # PeerOrigin
  THEN [checks |-> <<"parse", "origin">>, fail |-> OriginMismatch]
  ELSE IF b.roomID # PathRoom
  THEN [checks |-> <<"parse", "origin", "ids">>, fail |-> RoomMismatch]
  ELSE IF b.eventID # PathEvent
  THEN [checks |-> <<"parse", "origin", "ids">>, fail |-> EventMismatch]
  ELSE [checks |-> <<"parse", "ids", "origin">>, fail |-> NoJoinResp]

\* Lines 408-438: the body is decoded, then compared with the path, then
\* with the peer; the result is the checks made and the failure, if any.
Validate(b) ==
  IF ~b.parsed
  THEN [checks |-> <<"parse">>, fail |-> ParseFailure]
  ELSE IF b.roomID # PathRoom
  THEN [checks |-> <<"parse", "ids">>, fail |-> RoomMismatch]
  ELSE IF b.eventID # PathEvent
  THEN [checks |-> <<"parse", "ids">>, fail |-> EventMismatch]
  ELSE IF b.origin # PeerOrigin
  THEN [checks |-> <<"parse", "ids", "origin">>, fail |-> OriginMismatch]
  ELSE [checks |-> <<"parse", "ids", "origin">>, fail |-> NoJoinResp]

SJValidate(j) ==
  /\ jpc[j] = "validate"
  /\ LET v == Validate(jreq[j]) IN
       /\ jchecks' = [jchecks EXCEPT ![j] = v.checks]
       /\ IF v.fail # NoJoinResp
          THEN Finish(j, v.fail)
          ELSE /\ jpc' = [jpc EXCEPT ![j] = "verify"]
               /\ jresp' = jresp
  /\ UNCHANGED <<jreq, jstate, jcommit>>
  /\ UNCHANGED <<sharedVars, syncVars, makeVars>>

\* The request of lines 441-445: the event's origin, its redacted form and
\* its origin_server_ts.
VerifyRequest(b) == [ServerName |-> b.origin, AtTS |-> b.ts]

\* KeyRing.VerifyJSONs for one request, when the key is found: the message
\* verifies if ServerName signed it with a key valid at AtTS.
VerifyJSON(req, b) == b.signedBy = req.ServerName /\ req.AtTS = "valid"

\* Mutant of SignatureRejected: the per-event result is not looked at.
SignatureNeverRejected(verified) == FALSE

\* The test of line 450 on the result of the verification.
SignatureRejected(verified) == ~verified

SJVerify(j) ==
  /\ jpc[j] = "verify"
  /\ jchecks' = [jchecks EXCEPT ![j] = Append(@, "verify")]
  /\ \E lookupErr \in BOOLEAN :
       IF lookupErr
       THEN Finish(j, JoinInternalError)
       ELSE IF SignatureRejected(VerifyJSON(VerifyRequest(jreq[j]), jreq[j]))
       THEN Finish(j, BadSignature)
       ELSE /\ jpc' = [jpc EXCEPT ![j] = "query"]
            /\ jresp' = jresp
  /\ UNCHANGED <<jreq, jstate, jcommit>>
  /\ UNCHANGED <<sharedVars, syncVars, makeVars>>

\* Lines 457-464: the room state and auth chain, as of the position of the
\* query.
SJQuery(j) ==
  /\ jpc[j] = "query"
  /\ jchecks' = [jchecks EXCEPT ![j] = Append(@, "query")]
  /\ \E err \in BOOLEAN :
       IF err
       THEN /\ Finish(j, JoinInternalError)
            /\ jstate' = jstate
       ELSE /\ jstate' = [jstate EXCEPT ![j] = position]
            /\ jpc' = [jpc EXCEPT ![j] = "commit"]
            /\ jresp' = jresp
  /\ UNCHANGED <<jreq, jcommit>>
  /\ UNCHANGED <<sharedVars, syncVars, makeVars>>

\* Mutant of OnCommitError: the error of SendEvents is dropped.
OnCommitErrorIgnored(j) ==
  /\ jpc' = [jpc EXCEPT ![j] = "respond"]
  /\ jresp' = jresp

\* Lines 469-471: what SendJoin does when SendEvents returned an error.
OnCommitError(j) == Finish(j, JoinInternalError)

\* Lines 466-471: producer.SendEvents publishes the event, or fails.
SJCommit(j) ==
  /\ jpc[j] = "commit"
  /\ jchecks' = [jchecks EXCEPT ![j] = Append(@, "commit")]
  /\ \/ /\ position < MaxPos
        /\ Publish("join")
        /\ jcommit' = [jcommit EXCEPT ![j] = position + 1]
        /\ jpc' = [jpc EXCEPT ![j] = "respond"]
        /\ jresp' = jresp
     \/ /\ OnCommitError(j)
        /\ UNCHANGED <<sharedVars, pc, ch, jcommit>>
  /\ UNCHANGED <<jreq, jstate>>
  /\ UNCHANGED makeVars
  /\ UNCHANGED <<since, timeout, currPos, arrPos, after200, registered, timer,
                 cancelled, cancelAt, snaps, releases, resp>>

\* Mutant of SJRespond: the state is queried again for the response.
SJRespondRequeries(j) ==
  /\ jpc[j] = "respond"
  /\ Finish(j, [code |-> 200, errcode |-> "none", msg |-> "none",
                state |-> position])
  /\ UNCHANGED <<jreq, jchecks, jstate, jcommit>>
  /\ UNCHANGED <<sharedVars, syncVars, makeVars>>

\* Lines 473-479: the 200 with the state and auth chain queried before.
SJRespond(j) ==
  /\ jpc[j] = "respond"
  /\ Finish(j, [code |-> 200, errcode |-> "none", msg |-> "none",
                state |-> jstate[j]])
  /\ UNCHANGED <<jreq, jchecks, jstate, jcommit>>
  /\ UNCHANGED <<sharedVars, syncVars, makeVars>>

JoinSteps(j) ==
  \/ SJValidate(j)
  \/ SJVerify(j)
  \/ SJQuery(j)
  \/ SJCommit(j)
  \/ SJRespond(j)

JoinNext == \E j \in Joins : SJArrive(j) \/ JoinSteps(j)

\* The join handler alone, offered every body.
SpecJoin == Init /\ [][JoinNext]_vars

\* SendJoin next to other writers of the stream.
SpecCommit == Init /\ [][Advance \/ JoinNext]_vars

\* Join events for the path, sent by their origin, correctly signed or not.
PathBodies ==
  {b \in Bodies : /\ b.parsed /\ b.roomID = PathRoom /\ b.eventID = PathEvent
                  /\ b.origin = PeerOrigin /\ b.ts = "valid" /\ b.authOK}

SJArrivePath(j) == SJArriveWith(j, PathBodies)

\* Both subsystems: a sync request, a join for the path, and other writers.
Next ==
  \/ Advance
  \/ SyncNext
  \/ \E j \in Joins : SJArrivePath(j) \/ JoinSteps(j)

Spec == Init /\ [][Next]_vars

\* ------------------------------------------------------------ MakeJoin
MFinish(m, response) ==
  /\ mresp' = [mresp EXCEPT ![m] = response]
  /\ mpc' = [mpc EXCEPT ![m] = "done"]

\* A peer asks /make_join/R/{userID}.
MJArrive(m) ==
  /\ mpc[m] = "idle"
  /\ \E u \in UserIDs, o \in Servers, e \in BOOLEAN, v \in Verdicts :
       mreq' = [mreq EXCEPT ![m] =
                  [userID |-> u, origin |-> o, roomExists |-> e,
                   verdict |-> v]]
  /\ mpc' = [mpc EXCEPT ![m] = "authority"]
  /\ UNCHANGED <<msteps, mresp>>
  /\ UNCHANGED <<sharedVars, syncVars, joinVars>>

\* Mutant of AuthorityOK: the domain is not compared with the origin.
AuthorityAlwaysOK(domain, origin) == TRUE

\* The test of line 349.
AuthorityOK(domain, origin) == domain = origin

\* Lines 342-354: the user ID is split and its domain compared with the
\* peer's origin.
MJAuthority(m) ==
  /\ mpc[m] = "authority"
  /\ LET id == SplitID("@", mreq[m].userID) IN
       IF id.err
       THEN /\ msteps' = [msteps EXCEPT ![m] = <<"split">>]
            /\ MFinish(m, MakeError(400, "M_BAD_JSON", "Invalid UserID"))
       ELSE /\ msteps' = [msteps EXCEPT ![m] = <<"split", "authority">>]
            /\ IF AuthorityOK(id.domain, mreq[m].origin)
               THEN /\ mpc' = [mpc EXCEPT ![m] = "build"]
                    /\ mresp' = mresp
               ELSE MFinish(m, MakeError(403, "M_FORBIDDEN",
                                         "must be sent by the user's server"))
  /\ UNCHANGED mreq
  /\ UNCHANGED <<sharedVars, syncVars, joinVars>>

\* Mutant of NoRoomResponse: the missing room is reported as forbidden.
NoRoomForbidden == MakeError(403, "M_FORBIDDEN", "Room does not exist")

\* Lines 369-373: the response to common.ErrRoomNoExists.
NoRoomResponse == MakeError(404, "M_NOT_FOUND", "Room does not exist")

\* The unsigned event of lines 356-362, built on the latest events.
Proposal(m) ==
  <<mreq[m].userID, PathRoom, "m.room.member", mreq[m].userID, "join">>

\* Lines 356-376: the builder is filled and common.BuildEvent queries the
\* roomserver for the latest events and state of the room.
MJBuild(m) ==
  /\ mpc[m] = "build"
  /\ msteps' = [msteps EXCEPT ![m] = Append(@, "build")]
  /\ \E err \in BOOLEAN :
       IF err
       THEN MFinish(m, MakeError(500, "M_UNKNOWN", "internal server error"))
       ELSE IF ~mreq[m].roomExists
       THEN MFinish(m, NoRoomResponse)
       ELSE /\ mpc' = [mpc EXCEPT ![m] = "allowed"]
            /\ mresp' = mresp
  /\ UNCHANGED mreq
  /\ UNCHANGED <<sharedVars, syncVars, joinVars>>

\* gomatrixserverlib.Allowed(event, provider): nil, or the error that says
\* why the state forbids the event.
Allowed(m) == mreq[m].verdict

\* Lines 378-395: the proposal is checked against the queried state and
\* returned.
MJAllowed(m) ==
  /\ mpc[m] = "allowed"
  /\ msteps' = [msteps EXCEPT ![m] = Append(@, "allowed")]
  /\ IF Allowed(m) # "allowed"
     THEN MFinish(m, MakeError(403, "M_FORBIDDEN", Allowed(m)))
     ELSE MFinish(m, [code |-> 200, errcode |-> "none", msg |-> "none",
                      event |-> Proposal(m)])
  /\ UNCHANGED mreq
  /\ UNCHANGED <<sharedVars, syncVars, joinVars>>

MakeJoinNext ==
  \E m \in MakeJoins :
    MJArrive(m) \/ MJAuthority(m) \/ MJBuild(m) \/ MJAllowed(m)

\* The make_join handler alone.
SpecMakeJoin == Init /\ [][MakeJoinNext]_vars

\* ================================================================ claims
Range(q) == {q[i] : i \in DOMAIN q}
Count(q, x) == Cardinality({i \in DOMAIN q : q[i] = x})

\* The request takes the listening path of OnIncomingSyncRequest.
Waits(r) == pc[r] # "idle" /\ resp[r].code # 400 /\ since[r] # 0 /\ timeout[r] > 0

C2_SignatureGate ==
  \A j \in Joins :
    "commit" \in Range(jchecks[j]) =>
      /\ SubSeq(jchecks[j], 1, 4) = <<"parse", "ids", "origin", "verify">>
      /\ jreq[j].parsed
      /\ jreq[j].roomID = PathRoom /\ jreq[j].eventID = PathEvent
      /\ jreq[j].origin = PeerOrigin
      /\ jreq[j].signedBy = jreq[j].origin /\ jreq[j].ts = "valid"

\* A join event has been committed.
C2_Witness == \E j \in Joins : jcommit[j] # 0 /\ stream[jcommit[j]] = "join"

\* C3 (as claimed). Every event SendJoin commits is allowed by the room's
\* authorization rules.
C3_CommittedIsAuthorized ==
  \A j \in Joins : jcommit[j] # 0 => jreq[j].authOK

\* C4. The response of the timer case is a 200 with the empty response that
\* carries the request's own since, whatever currPos has become.
C4_TimeoutEchoesSince ==
  \A r \in Requests :
    resp[r].via = "timer" =>
      /\ resp[r].code = 200 /\ resp[r].kind = "empty" /\ IsEmpty(resp[r])
      /\ resp[r].next = since[r]

\* A timeout after near misses moved currPos away from since.
C4_Witness ==
  \E r \in Requests :
    /\ resp[r].via = "timer" /\ Len(snaps[r]) >= 1
    /\ currPos[r] > arrPos[r] /\ currPos[r] # since[r]

\* The select of lines 89-102 has not taken a case yet.
AtSelect == {"select", "poll", "parked"}

\* C5 (as claimed). A request cancelled while it is at the select takes
\* neither the listener nor the timer case, computes no snapshot and never
\* returns a 200.
C5_CancelNeverSucceeds ==
  \A r \in Requests :
    cancelAt[r] \in AtSelect =>
      /\ pc[r] \notin {"caseListener", "caseTimer", "compute"}
      /\ resp[r].code # 200

\* C6. A request with since = 0 or timeout = 0 starts no timer, obtains no
\* listener and never reaches the select; it computes one snapshot, at the
\* position read at arrival, and returns it with a 200, empty or not (an
\* error of the snapshot is the only other outcome).
C6_FastPath ==
  \A r \in Requests :
    (pc[r] # "idle" /\ resp[r].code # 400 /\ (since[r] = 0 \/ timeout[r] = 0)) =>
      /\ timer[r] = "none" /\ ~registered[r] /\ releases[r] = 0
      /\ ch[r] = "none" /\ pc[r] \in {"check", "done"}
      /\ pc[r] = "check" => snaps[r] = <<>>
      /\ pc[r] = "done" =>
           /\ Len(snaps[r]) = 1
           /\ snaps[r][1][1] = since[r] /\ snaps[r][1][2] = arrPos[r]
           /\ resp[r].via \in {"fast", "error"}
           /\ resp[r].via = "fast" =>
                /\ resp[r].code = 200
                /\ since[r] = 0 => resp[r].kind = "complete"
                /\ since[r] # 0 =>
                     /\ resp[r].kind = "incremental"
                     /\ resp[r].next = arrPos[r]
                     /\ resp[r].data =
                          {p \in (since[r] + 1)..arrPos[r] : RoomData(stream[p])}

\* An incremental timeout=0 request answered 200 with an empty snapshot
\* although the stream has advanced since.
C6_Witness ==
  \E r \in Requests :
    /\ pc[r] = "done" /\ resp[r].via = "fast" /\ resp[r].code = 200
    /\ since[r] # 0 /\ timeout[r] = 0 /\ IsEmpty(resp[r])
    /\ position > arrPos[r]

\* C7. A waiting request returns a 200 before its timer fired only with a
\* non-empty snapshot computed after a wake, and returns an empty 200 only
\* through the timer case.
C7_NoEarlyEmptyReturn ==
  \A r \in Requests :
    (Waits(r) /\ resp[r].code = 200) =>
      /\ timer[r] # "fired" => (resp[r].via = "wake" /\ ~IsEmpty(resp[r]))
      /\ IsEmpty(resp[r]) => (resp[r].via = "timer" /\ timer[r] = "fired")

\* A non-empty snapshot returned before the timer fired, after a near miss.
C7_Witness ==
  \E r \in Requests :
    /\ Waits(r) /\ resp[r].code = 200 /\ resp[r].via = "wake"
    /\ timer[r] # "fired" /\ Len(snaps[r]) >= 2

\* C8 (as claimed). A sync request opened after a send_join returned 200,
\* with a since before the join's position, is not left parked in the
\* select, and the 200 it returns holds the join event.
C8_SyncSeesCommittedJoin ==
  \A r \in Requests : \A j \in Joins :
    (after200[r] /\ jresp[j].code = 200 /\ since[r] < jcommit[j]) =>
      /\ pc[r] # "parked"
      /\ resp[r].code = 200 => jcommit[j] \in resp[r].data

\* C9. SendJoin returns 200 only after SendEvents published the event; when
\* SendEvents fails the peer gets an error, and SendEvents is never invoked
\* twice.
C9_NoAcceptWithoutCommit ==
  \A j \in Joins :
    /\ jresp[j].code = 200 =>
         /\ jcommit[j] # 0 /\ stream[jcommit[j]] = "join"
         /\ jchecks[j][Len(jchecks[j])] = "commit"
    /\ (jpc[j] \in {"respond", "done"} /\ "commit" \in Range(jchecks[j])
          /\ jcommit[j] = 0) =>
         (jpc[j] = "done" /\ jresp[j].code = 500)
    /\ Count(jchecks[j], "commit") <= 1

\* SendEvents failed after every check passed.
C9_Witness ==
  \E j \in Joins :
    /\ jpc[j] = "done" /\ "commit" \in Range(jchecks[j]) /\ jcommit[j] = 0

\* The first check, in the claimed order, that the body fails.
FirstFailing(b) ==
  IF ~b.parsed THEN "parse"
  ELSE IF b.roomID # PathRoom \/ b.eventID # PathEvent THEN "ids"
  ELSE IF b.origin # PeerOrigin THEN "origin"
  ELSE IF ~(b.signedBy = b.origin /\ b.ts = "valid") THEN "verify"
  ELSE "none"

ErrorClass(response) == <<response.code, response.errcode>>

\* The rejection of each check.
RejectionOf(c) ==
  CASE c = "parse" -> ParseFailure
    [] c = "ids" -> RoomMismatch
    [] c = "origin" -> OriginMismatch
    [] c = "verify" -> BadSignature

\* C10 (as claimed). A request rejected by one of the four checks gets an
\* error class that no other check's rejection has.
C10_DistinctClasses ==
  \A j \in Joins :
    (jpc[j] = "done" /\ FirstFailing(jreq[j]) # "none"
       /\ jresp[j].code # 500) =>
      \A c \in {"parse", "ids", "origin", "verify"} \ {FirstFailing(jreq[j])} :
        ErrorClass(jresp[j]) # ErrorClass(RejectionOf(c))

\* C10 (amended). The checks are made in the order parse, identifiers,
\* origin, signature; the first that fails ends the request, with no later
\* check, state query or commit; the responses are 400 M_NOT_JSON, 400
\* M_BAD_JSON, 403 M_FORBIDDEN and, for the signature, 403 M_FORBIDDEN (500
\* when the key lookup fails).
C10_FailFastOrder ==
  \A j \in Joins :
    LET f == FirstFailing(jreq[j]) IN
    (jpc[j] \notin {"idle", "validate"} /\ f # "none") =>
      /\ "query" \notin Range(jchecks[j]) /\ "commit" \notin Range(jchecks[j])
      /\ jcommit[j] = 0 /\ jstate[j] = 0
      /\ f = "parse" =>
           /\ jchecks[j] = <<"parse">> /\ jpc[j] = "done"
           /\ ErrorClass(jresp[j]) = <<400, "M_NOT_JSON">>
      /\ f = "ids" =>
           /\ jchecks[j] = <<"parse", "ids">> /\ jpc[j] = "done"
           /\ ErrorClass(jresp[j]) = <<400, "M_BAD_JSON">>
      /\ f = "origin" =>
           /\ jchecks[j] = <<"parse", "ids", "origin">> /\ jpc[j] = "done"
           /\ ErrorClass(jresp[j]) = <<403, "M_FORBIDDEN">>
      /\ (f = "verify" /\ jpc[j] = "done") =>
           /\ jchecks[j] = <<"parse", "ids", "origin", "verify">>
           /\ ErrorClass(jresp[j]) \in
                {<<403, "M_FORBIDDEN">>, <<500, "M_UNKNOWN">>}

\* A body with the wrong room and the wrong origin, rejected for the room.
C10_Witness ==
  \E j \in Joins :
    /\ jpc[j] = "done" /\ jreq[j].parsed
    /\ jreq[j].roomID # PathRoom /\ jreq[j].origin # PeerOrigin
    /\ jresp[j] = RoomMismatch

\* The domain SplitID finds in the user ID of the make_join request.
UserDomain(m) == SplitID("@", mreq[m].userID).domain
ValidUser(m) == mpc[m] # "idle" /\ ~SplitID("@", mreq[m].userID).err

\* C11. When the domain of the user ID differs from the peer's origin,
\* MakeJoin answers 403 forbidden and has neither built the event (the room
\* state query) nor run the authorization evaluator.
C11_AuthorityBeforeState ==
  \A m \in MakeJoins :
    (ValidUser(m) /\ UserDomain(m) # mreq[m].origin) =>
      /\ mpc[m] \in {"authority", "done"}
      /\ "build" \notin Range(msteps[m]) /\ "allowed" \notin Range(msteps[m])
      /\ mpc[m] = "done" =>
           /\ mresp[m].code = 403 /\ mresp[m].errcode = "M_FORBIDDEN"
           /\ msteps[m] = <<"split", "authority">>

\* A rejected proposal for a user of another server, in an existing room
\* whose rules would allow the join.
C11_Witness ==
  \E m \in MakeJoins :
    /\ mpc[m] = "done" /\ ValidUser(m) /\ UserDomain(m) # mreq[m].origin
    /\ mreq[m].roomExists /\ mreq[m].verdict = "allowed"
    /\ mresp[m].code = 403

\* C12. With a matching domain and the roomserver answering, MakeJoin
\* returns the unsigned proposal with 200 exactly when the room exists and
\* the evaluator allows it; a missing room gives 404 not-found, never 403;
\* an evaluator rejection gives 403 with the evaluator's reason.
C12_OutcomeClasses ==
  \A m \in MakeJoins :
    (mpc[m] = "done" /\ ValidUser(m) /\ UserDomain(m) = mreq[m].origin
       /\ mresp[m].code # 500) =>
      /\ mresp[m].code = 200 <=>
           (mreq[m].roomExists /\ mreq[m].verdict = "allowed")
      /\ mresp[m].code = 200 =>
           /\ mresp[m].event = Proposal(m)
           /\ msteps[m] = <<"split", "authority", "build", "allowed">>
      /\ ~mreq[m].roomExists =>
           /\ mresp[m].code = 404 /\ mresp[m].errcode = "M_NOT_FOUND"
           /\ "allowed" \notin Range(msteps[m])
      /\ (mreq[m].roomExists /\ mreq[m].verdict # "allowed") =>
           /\ mresp[m].code = 403 /\ mresp[m].errcode = "M_FORBIDDEN"
           /\ mresp[m].msg = mreq[m].verdict

\* A missing room whose join the rules would also have rejected: 404.
C12_Witness ==
  \E m \in MakeJoins :
    /\ mpc[m] = "done" /\ ValidUser(m) /\ UserDomain(m) = mreq[m].origin
    /\ ~mreq[m].roomExists /\ mreq[m].verdict # "allowed"
    /\ mresp[m].code = 404

\* C13. A 200 response to an incremental sync carries, for every account
\* data type (global or of a room) changed at a position in (since, next],
\* next being the token it returns, a value of that type at least as recent
\* as the change: along a chain of polls no changed type is left out.
C13_AccountDataNotMissed ==
  \A r \in Requests :
    (resp[r].code = 200 /\ since[r] # 0) =>
      /\ resp[r].via \in {"fast", "wake"} => resp[r].next = currPos[r]
      /\ \A p \in (since[r] + 1)..resp[r].next :
           stream[p] \in AcctKinds =>
             \E a \in resp[r].acct :
               /\ a[1] = (IF stream[p] = "racct" THEN "join" ELSE "global")
               /\ a[2] = RoomOf(stream[p])
               /\ a[3][1] = stream[p] /\ a[3][2] >= p

\* A response after a wake to an incremental sync that carries an account
\* data type changed in its range by a value set after the position of the
\* snapshot: the next poll of the chain delivers that value again.
C13_Witness ==
  \E r \in Requests :
    /\ resp[r].code = 200 /\ resp[r].via = "wake" /\ since[r] # 0
    /\ \E p \in (since[r] + 1)..resp[r].next : stream[p] \in AcctKinds
    /\ \E a \in resp[r].acct : a[3][2] > resp[r].next

\* The states of a request between GetListener and its return.
Listening == {"select", "poll", "parked", "caseListener", "caseTimer",
              "caseCancel", "compute"}

\* C14. Listener discipline: a listening request holds its listener, not yet
\* released; a request that has returned holds none, and has released the
\* listener exactly once if it ever listened and never otherwise, whichever
\* way it returned (timer, snapshot, cancellation or snapshot error).
C14_ListenerDiscipline ==
  \A r \in Requests :
    /\ pc[r] \in Listening => (registered[r] /\ releases[r] = 0)
    /\ pc[r] \in {"idle", "check"} => (~registered[r] /\ releases[r] = 0)
    /\ pc[r] = "done" =>
         /\ ~registered[r]
         /\ releases[r] = (IF timer[r] # "none" THEN 1 ELSE 0)
         /\ resp[r].via \in {"timer", "wake", "cancel"} => timer[r] # "none"

\* A listening request has returned on a snapshot error after a wake, and
\* its listener is released.
C14_Witness ==
  \E r \in Requests :
    /\ pc[r] = "done" /\ resp[r].via = "error" /\ timer[r] # "none"
    /\ ~registered[r] /\ releases[r] = 1

\* C15 (as claimed). Once the timer of a listening request has fired, the
\* select never takes the listener case again: no further wake is consumed
\* and no new snapshot computation is started.
C15_NoWakeAfterTimer ==
  [][\A r \in Requests :
       (timer[r] = "fired" /\ pc[r] = "poll") => pc'[r] # "caseListener"]_vars

\* C16. A consumed wake is followed by the snapshot computation, and the
\* computation decides the outcome whatever happened to the timer or to the
\* caller meanwhile: a snapshot error is returned as such, a non-empty
\* snapshot is returned with 200, and an empty one leads back to the select.
C16_ComputationNotRaced ==
  [][\A r \in Requests :
       /\ pc[r] = "caseListener" => pc'[r] \in {"caseListener", "compute"}
       /\ (pc[r] = "compute" /\ pc'[r] # "compute") =>
            LET res == currentSyncForUser(since[r], currPos[r]) IN
            \/ /\ pc'[r] = "done"
               /\ resp'[r] = LogThenError("error")
            \/ /\ ~IsEmpty(res)
               /\ pc'[r] = "done"
               /\ resp'[r] = JSONResponse200("wake", res)
            \/ /\ IsEmpty(res)
               /\ pc'[r] = "select"
               /\ resp'[r] = resp[r]]_vars

\* A non-empty snapshot has been returned with 200 although the caller went
\* away during the computation and the timer has fired.
C16_Witness ==
  \E r \in Requests :
    /\ pc[r] = "done" /\ resp[r].code = 200 /\ resp[r].via = "wake"
    /\ ~IsEmpty(resp[r])
    /\ cancelAt[r] = "compute" /\ timer[r] = "fired"

\* C17. One timer for the whole wait: the timer is started only when the
\* request begins to listen and, once fired, stays fired; the step back to
\* the select after an empty snapshot leaves the timer, the listener, the
\* client's token and the known position as they are; the select then waits
\* on the known position; and a request whose timer has fired is never
\* parked.
C17_NearMissKeepsTimer ==
  [][\A r \in Requests :
       /\ timer'[r] # timer[r] =>
            \/ pc[r] = "check" /\ timer[r] = "none" /\ timer'[r] = "running"
            \/ timer[r] = "running" /\ timer'[r] = "fired"
       /\ (pc[r] = "compute" /\ pc'[r] = "select") =>
            /\ timer'[r] = timer[r]
            /\ registered'[r] /\ releases'[r] = 0
            /\ since'[r] = since[r] /\ currPos'[r] = currPos[r]
            /\ currPos[r] > arrPos[r]
       /\ (pc[r] = "select" /\ pc'[r] = "poll") =>
            ch'[r] = GetNotifyChannel(currPos[r])
       /\ timer'[r] = "fired" => pc'[r] # "parked"]_vars

\* After an empty snapshot the request is parked again, on a position beyond
\* the one it arrived with, and its timer is still running.
C17_Witness ==
  \E r \in Requests :
    /\ pc[r] = "parked" /\ Len(snaps[r]) >= 1
    /\ currPos[r] > arrPos[r] /\ timer[r] = "running" /\ registered[r]

\* C18. Every snapshot of a listening request is computed over
\* (since, currPos] with the client's own token as since and, as currPos, a
\* position the stream has reached that is beyond the position of the
\* previous snapshot and beyond the position read at arrival; the snapshot
\* returned after a wake carries every room event of that range.
C18_SnapshotRange ==
  \A r \in Requests :
    Waits(r) =>
      /\ \A i \in DOMAIN snaps[r] :
           /\ snaps[r][i][1] = since[r]
           /\ snaps[r][i][2] > arrPos[r] /\ snaps[r][i][2] <= position
           /\ i > 1 => snaps[r][i][2] > snaps[r][i - 1][2]
      /\ pc[r] = "compute" =>
           /\ currPos[r] > arrPos[r]
           /\ \A i \in DOMAIN snaps[r] : currPos[r] > snaps[r][i][2]
      /\ (resp[r].code = 200 /\ resp[r].via = "wake") =>
           /\ snaps[r] # <<>>
           /\ resp[r].next = snaps[r][Len(snaps[r])][2]
           /\ resp[r].data = {p \in (since[r] + 1)..resp[r].next :
                                RoomData(stream[p])}

\* A snapshot returned after an earlier empty one: its range starts at the
\* client's token, not at the position of the empty snapshot.
C18_Witness ==
  \E r \in Requests :
    /\ resp[r].code = 200 /\ resp[r].via = "wake"
    /\ Len(snaps[r]) = 2
    /\ since[r] < snaps[r][1][2]

\* The request was parsed: newSyncRequest returned a sync request.
Parsed(r) == pc[r] # "idle" /\ resp[r].via # "badrequest"

\* C19. A failed snapshot computation ends the request: it is the last
\* computation of the request, the request has returned the error response
\* and holds no listener; a 200 is returned only when no computation failed;
\* and a parsed request that has returned did so with a 200, with the
\* cancellation error or with the snapshot error.
C19_SnapshotFailureTerminal ==
  \A r \in Requests :
    /\ \A i \in DOMAIN snaps[r] :
         ~snaps[r][i][3] =>
           /\ i = Len(snaps[r])
           /\ pc[r] = "done" /\ ~registered[r]
           /\ resp[r] = LogThenError("error") /\ resp[r].code = 500
    /\ (Parsed(r) /\ pc[r] = "done") =>
         \/ /\ resp[r].code = 200 /\ resp[r].via \in {"fast", "timer", "wake"}
            /\ \A i \in DOMAIN snaps[r] : snaps[r][i][3]
         \/ /\ resp[r] = LogThenError("cancel") /\ cancelled[r]
            /\ \A i \in DOMAIN snaps[r] : snaps[r][i][3]
         \/ /\ resp[r] = LogThenError("error")
            /\ snaps[r] # <<>> /\ ~snaps[r][Len(snaps[r])][3]

\* A snapshot computed after a wake has failed, after an earlier empty one,
\* and the request has returned the error.
C19_Witness ==
  \E r \in Requests :
    /\ pc[r] = "done" /\ resp[r].via = "error" /\ resp[r].code = 500
    /\ Len(snaps[r]) = 2 /\ ~snaps[r][2][3]

\* C20. SendJoin queries the room state once, before the commit: the result
\* is the state at the position of the stream at the query, it is not
\* replaced afterwards, and the 200 response carries exactly it, so the
\* state returned is older than the join's own commit and than any commit
\* that landed after the query.
C20_ResponseIsPreCommit ==
  [][\A j \in Joins :
       /\ (jpc[j] = "query" /\ jpc'[j] = "commit") => jstate'[j] = position
       /\ jpc[j] # "query" => jstate'[j] = jstate[j]
       /\ jresp'[j].code = 200 =>
            /\ jresp'[j].state = jstate'[j]
            /\ jstate'[j] < jcommit'[j] /\ jcommit'[j] <= position'
            /\ Count(jchecks'[j], "query") = 1
            /\ Count(jchecks'[j], "commit") = 1
            /\ jchecks'[j][Len(jchecks'[j])] = "commit"
            /\ jchecks'[j][Len(jchecks'[j]) - 1] = "query"]_vars

\* A join answered 200 although another commit landed between its query and
\* its own commit, and a further one before the response.
C20_Witness ==
  \E j \in Joins :
    /\ jresp[j].code = 200
    /\ jcommit[j] > jstate[j] + 1
    /\ position > jcommit[j]

====
